---- MODULE Spec2Model ----
(***************************************************************************)
(* Model of the ToDo API (Eisenhower matrix): the task router              *)
(* (routers/tasks.py), the statistics router (routers/stats.py), the Task  *)
(* table (models/task.py) and the request schemas (schemas.py).            *)
(*                                                                         *)
(* tasks holds the committed rows of the tasks table, keyed by id.  Every  *)
(* action is one HTTP request handled from authentication to commit; resp  *)
(* is the outcome of the last request: the status the handler decides and  *)
(* the rows it selects.  The clock is environment: Tick advances it.       *)
(* txn holds the update requests that have run their SELECT and wait at    *)
(* await db.commit(), for the runs in which requests interleave.           *)
(*                                                                         *)
(* Optional values: None is Python's None / SQL NULL, Some(v) a value.     *)
(* A field of an update request is Unset (absent from the body) or         *)
(* Given(x) with x an optional value, so Given(None) is an explicit null:  *)
(* model_dump(exclude_unset=True) keeps exactly the Given fields.          *)
(***************************************************************************)
EXTENDS Integers, Sequences, FiniteSets, TLC

VARIABLES tasks, nextId, now, resp, ev, txn

vars == <<tasks, nextId, now, resp, ev, txn>>

---------------------------------------------------------------------------
(* Bounds of the model.                                                    *)

\* ids the autoincrement sequence may hand out in Spec
MaxTasks == 2
\* ids the autoincrement sequence may hand out in SpecLife
MaxLifeTasks == 1
\* last clock reading (SpecLife); the clock starts at 0
MaxNow == 2
\* clock readings per calendar day
TicksPerDay == 2
\* most fields one update request of SpecLife provides
MaxProvided == 1
\* last calendar day a deadline or a reference date of SpecPure falls on
MaxDay == 9

---------------------------------------------------------------------------
(* Program constants.                                                      *)

UrgentDays == 3
MinTitleLen == 3
MaxTitleLen == 100
MaxDescLen == 500
MinQueryLen == 2

---------------------------------------------------------------------------
(* Values.                                                                 *)

None == <<>>
Some(v) == <<v>>
Unset == <<>>
Given(x) == <<x>>
OptBool == {None, Some(TRUE), Some(FALSE)}

\* bool(x) of Python for an optional boolean: None and False are falsy
Truthy(x) == x = Some(TRUE)

Quadrants == {"Q1", "Q2", "Q3", "Q4"}
Statuses == {"completed", "pending"}

Admin == 1
Users == {1, 2, 3}
Role(u) == IF u = Admin THEN "admin" ELSE "user"

DateOf(ts) == ts \div TicksPerDay
Today == DateOf(now)

---------------------------------------------------------------------------
(* Deadline evaluation and quadrant classification (routers/tasks.py).     *)
(* today is date.today() at the time of the call.                          *)

\* (deadline_date - today).days, for a deadline that is present
DaysBetween(deadline_at, today) == DateOf(deadline_at[1]) - today

IsUrgentLate(deadline_at, today) ==
    IF deadline_at = None THEN FALSE
    ELSE DaysBetween(deadline_at, today) < UrgentDays

IsUrgentAt(deadline_at, today) ==
    IF deadline_at = None THEN FALSE
    ELSE DaysBetween(deadline_at, today) <= UrgentDays

QuadrantSwapped(is_important, is_urgent) ==
    IF Truthy(is_important) /\ is_urgent THEN "Q1"
    ELSE IF Truthy(is_important) /\ ~is_urgent THEN "Q3"
    ELSE IF ~Truthy(is_important) /\ is_urgent THEN "Q2"
    ELSE "Q4"

QuadrantOf(is_important, is_urgent) ==
    IF Truthy(is_important) /\ is_urgent THEN "Q1"
    ELSE IF Truthy(is_important) /\ ~is_urgent THEN "Q2"
    ELSE IF ~Truthy(is_important) /\ is_urgent THEN "Q3"
    ELSE "Q4"

calculate_urgency_and_quadrant(deadline_at, is_important, today) ==
    LET is_urgent == IsUrgentAt(deadline_at, today)
    IN  [is_urgent |-> is_urgent, quadrant |-> QuadrantOf(is_important, is_urgent)]

calculate_days_until_deadline(deadline_at, today) ==
    IF deadline_at = None THEN None
    ELSE Some(DaysBetween(deadline_at, today))

---------------------------------------------------------------------------
(* Request schemas (schemas.py).                                           *)

\* TaskCreate's fields; a create body may also carry user_id, which TaskCreate does
\* not declare
CreateFields == {"title", "description", "is_important", "deadline_at"}
UpdateFields == {"title", "description", "is_important", "deadline_at", "completed"}
\* the keys of an update body: TaskUpdate's fields, and two keys it does not declare
BodyFields == UpdateFields \cup {"is_urgent", "quadrant"}

\* TaskBase: title 3..100 characters, description at most 500
ValidCreate(req) ==
    /\ Len(req.title) >= MinTitleLen
    /\ Len(req.title) <= MaxTitleLen
    /\ req.description # None => Len(req.description[1]) <= MaxDescLen

\* TaskUpdate: every field Optional, so an explicit null passes validation
ValidUpdate(req) ==
    /\ (req.title # Unset /\ req.title[1] # None) =>
           /\ Len(req.title[1][1]) >= MinTitleLen
           /\ Len(req.title[1][1]) <= MaxTitleLen
    /\ (req.description # Unset /\ req.description[1] # None) =>
           Len(req.description[1][1]) <= MaxDescLen

\* the keys of task_update.model_dump(exclude_unset=True): a key TaskUpdate does
\* not declare is dropped when the body is parsed
Provided(req) == {f \in UpdateFields : req[f] # Unset}

\* the keys present in the body
BodyKeys(req) == {f \in BodyFields : req[f] # Unset}

---------------------------------------------------------------------------
(* Responses.  Beside what the handler returns, resp keeps the row the     *)
(* handler read before it changed anything (prev), for the by-id writes,   *)
(* and the body of a create or an update (req; for an update, fields are   *)
(* the keys model_dump gave).                                              *)

ZeroStats == [total_tasks |-> 0,
              by_quadrant |-> [qd \in Quadrants |-> 0],
              by_status |-> [st \in Statuses |-> 0]]

NoResp == [op |-> "none", caller |-> 0, id |-> 0, status |-> 0, rows |-> {},
           days |-> <<>>, fields |-> {}, arg |-> "", q |-> <<>>,
           stats |-> ZeroStats, deleted |-> None, prev |-> None, req |-> None]

\* an HTTPException, a validation error or a failed commit: no body
Failure(op, u, id, status) ==
    [NoResp EXCEPT !.op = op, !.caller = u, !.id = id, !.status = status]

\* TaskResponse of every selected row, days_until_deadline computed at response time
TaskRows(op, u, id, status, rows, tk) ==
    [NoResp EXCEPT !.op = op, !.caller = u, !.id = id, !.status = status,
                   !.rows = rows,
                   !.days = [i \in rows |->
                       calculate_days_until_deadline(tk[i].deadline_at, Today)]]

---------------------------------------------------------------------------
(* Access policy, as the handlers inline it.                               *)

ForbiddenNever(u, t) == FALSE

\* current_user.role != UserRole.ADMIN and task.user_id != current_user.id
Forbidden(u, t) == Role(u) # "admin" /\ t.user_id # u

\* result.scalar_one_or_none() is a task
Exists(id) == id \in DOMAIN tasks

---------------------------------------------------------------------------
(* The Task row (models/task.py) and the mutating handlers.                *)

\* as NewTask, taking the owner from the body when the body names one
NewTaskFromBody(u, req) ==
    LET imp == Some(req.is_important)
        uq == calculate_urgency_and_quadrant(req.deadline_at, imp, Today)
    IN  [title |-> Some(req.title), description |-> req.description,
         is_important |-> imp, is_urgent |-> uq.is_urgent, quadrant |-> uq.quadrant,
         completed |-> Some(FALSE), created_at |-> now, completed_at |-> None,
         deadline_at |-> req.deadline_at,
         user_id |-> IF req.user_id = Unset THEN u ELSE req.user_id[1]]

\* Task(...) of create_task; created_at is the server default now()
NewTask(u, req) ==
    LET imp == Some(req.is_important)
        uq == calculate_urgency_and_quadrant(req.deadline_at, imp, Today)
    IN  [title |-> Some(req.title), description |-> req.description,
         is_important |-> imp, is_urgent |-> uq.is_urgent, quadrant |-> uq.quadrant,
         completed |-> Some(FALSE), created_at |-> now, completed_at |-> None,
         deadline_at |-> req.deadline_at, user_id |-> u]

\* as SetAttrs, and a body that provides completed also resets completed_at
SetAttrsClearing(t, req) ==
    [t EXCEPT !.title = IF req.title = Unset THEN @ ELSE req.title[1],
              !.description = IF req.description = Unset THEN @ ELSE req.description[1],
              !.is_important = IF req.is_important = Unset THEN @ ELSE req.is_important[1],
              !.deadline_at = IF req.deadline_at = Unset THEN @ ELSE req.deadline_at[1],
              !.completed = IF req.completed = Unset THEN @ ELSE req.completed[1],
              !.completed_at = IF req.completed = Unset THEN @ ELSE None]

\* for field, value in update_data.items(): setattr(task, field, value)
SetAttrs(t, req) ==
    [t EXCEPT !.title = IF req.title = Unset THEN @ ELSE req.title[1],
              !.description = IF req.description = Unset THEN @ ELSE req.description[1],
              !.is_important = IF req.is_important = Unset THEN @ ELSE req.is_important[1],
              !.deadline_at = IF req.deadline_at = Unset THEN @ ELSE req.deadline_at[1],
              !.completed = IF req.completed = Unset THEN @ ELSE req.completed[1]]

RecomputesOnDeadline(req) == req.deadline_at # Unset

\* "is_important" in update_data or "deadline_at" in update_data
Recomputes(req) == req.is_important # Unset \/ req.deadline_at # Unset

Recomputed(t) ==
    LET uq == calculate_urgency_and_quadrant(t.deadline_at, t.is_important, Today)
    IN  [t EXCEPT !.is_urgent = uq.is_urgent, !.quadrant = uq.quadrant]

\* as Updated, recomputing on every update
UpdatedAlways(t, req) == Recomputed(SetAttrs(t, req))

\* the task object of update_task just before the commit
Updated(t, req) ==
    IF Recomputes(req) THEN Recomputed(SetAttrs(t, req)) ELSE SetAttrs(t, req)

\* the NOT NULL columns a request can write: title and is_important
CommitOK(t) == t.title # None /\ t.is_important # None

\* as Completed, keeping the time of the first completion
CompletedOnce(t) ==
    [t EXCEPT !.completed = Some(TRUE),
              !.completed_at = IF @ = None THEN Some(now) ELSE @]

\* task.completed = True; task.completed_at = datetime.now()
Completed(t) == [t EXCEPT !.completed = Some(TRUE), !.completed_at = Some(now)]

create_task(u, req) ==
    IF ~ValidCreate(req)
    THEN /\ resp' = [Failure("create", u, 0, 422) EXCEPT !.req = Some(req)]
         /\ UNCHANGED <<tasks, nextId, now, ev, txn>>
    ELSE LET new == [i \in DOMAIN tasks \cup {nextId} |->
                        IF i = nextId THEN NewTask(u, req) ELSE tasks[i]]
         IN  /\ tasks' = new
             /\ nextId' = nextId + 1
             /\ resp' = [TaskRows("create", u, nextId, 201, {nextId}, new)
                            EXCEPT !.req = Some(req)]
             /\ UNCHANGED <<now, ev, txn>>

update_task(u, id, req) ==
    /\ UNCHANGED <<nextId, now, ev, txn>>
    /\ IF ~ValidUpdate(req)
       THEN resp' = [Failure("update", u, id, 422) EXCEPT !.req = Some(req)]
            /\ UNCHANGED tasks
       ELSE IF ~Exists(id)
       THEN resp' = Failure("update", u, id, 404) /\ UNCHANGED tasks
       ELSE IF Forbidden(u, tasks[id])
       THEN resp' = Failure("update", u, id, 403) /\ UNCHANGED tasks
       ELSE IF ~CommitOK(Updated(tasks[id], req))
       THEN resp' = [Failure("update", u, id, 500) EXCEPT
                        !.fields = Provided(req), !.req = Some(req),
                        !.prev = Some(tasks[id])]
            /\ UNCHANGED tasks
       ELSE LET new == [tasks EXCEPT ![id] = Updated(tasks[id], req)]
            IN  /\ tasks' = new
                /\ resp' = [TaskRows("update", u, id, 200, {id}, new)
                               EXCEPT !.fields = Provided(req), !.req = Some(req),
                                      !.prev = Some(tasks[id])]

complete_task(u, id) ==
    /\ UNCHANGED <<nextId, now, ev, txn>>
    /\ IF ~Exists(id)
       THEN resp' = Failure("complete", u, id, 404) /\ UNCHANGED tasks
       ELSE IF Forbidden(u, tasks[id])
       THEN resp' = Failure("complete", u, id, 403) /\ UNCHANGED tasks
       ELSE LET new == [tasks EXCEPT ![id] = Completed(tasks[id])]
            IN  /\ tasks' = new
                /\ resp' = [TaskRows("complete", u, id, 200, {id}, new)
                               EXCEPT !.prev = Some(tasks[id])]

\* as delete_task, answering 200 for a task that is already gone
delete_task_idempotent(u, id) ==
    /\ UNCHANGED <<nextId, now, ev, txn>>
    /\ IF ~Exists(id)
       THEN resp' = Failure("delete", u, id, 200) /\ UNCHANGED tasks
       ELSE IF Forbidden(u, tasks[id])
       THEN resp' = Failure("delete", u, id, 403) /\ UNCHANGED tasks
       ELSE /\ tasks' = [i \in DOMAIN tasks \ {id} |-> tasks[i]]
            /\ resp' = [Failure("delete", u, id, 200) EXCEPT
                           !.deleted = Some([id |-> id, title |-> tasks[id].title]),
                           !.prev = Some(tasks[id])]

\* as delete_task, removing every task of the deleted task's owner
delete_task_cascading(u, id) ==
    /\ UNCHANGED <<nextId, now, ev, txn>>
    /\ IF ~Exists(id)
       THEN resp' = Failure("delete", u, id, 404) /\ UNCHANGED tasks
       ELSE IF Forbidden(u, tasks[id])
       THEN resp' = Failure("delete", u, id, 403) /\ UNCHANGED tasks
       ELSE /\ tasks' = [i \in {j \in DOMAIN tasks : tasks[j].user_id # tasks[id].user_id}
                            |-> tasks[i]]
            /\ resp' = [Failure("delete", u, id, 200) EXCEPT
                           !.deleted = Some([id |-> id, title |-> tasks[id].title]),
                           !.prev = Some(tasks[id])]

delete_task(u, id) ==
    /\ UNCHANGED <<nextId, now, ev, txn>>
    /\ IF ~Exists(id)
       THEN resp' = Failure("delete", u, id, 404) /\ UNCHANGED tasks
       ELSE IF Forbidden(u, tasks[id])
       THEN resp' = Failure("delete", u, id, 403) /\ UNCHANGED tasks
       ELSE /\ tasks' = [i \in DOMAIN tasks \ {id} |-> tasks[i]]
            /\ resp' = [Failure("delete", u, id, 200) EXCEPT
                           !.deleted = Some([id |-> id, title |-> tasks[id].title]),
                           !.prev = Some(tasks[id])]

\* as get_task_by_id, answering 404 for a task the caller may not read
get_task_by_id_hiding(u, id) ==
    /\ UNCHANGED <<tasks, nextId, now, ev, txn>>
    /\ IF ~Exists(id) \/ Forbidden(u, tasks[id])
       THEN resp' = Failure("get", u, id, 404)
       ELSE resp' = TaskRows("get", u, id, 200, {id}, tasks)

get_task_by_id(u, id) ==
    /\ UNCHANGED <<tasks, nextId, now, ev, txn>>
    /\ IF ~Exists(id)
       THEN resp' = Failure("get", u, id, 404)
       ELSE IF Forbidden(u, tasks[id])
       THEN resp' = Failure("get", u, id, 403)
       ELSE resp' = TaskRows("get", u, id, 200, {id}, tasks)

---------------------------------------------------------------------------
(* The list-style reads (routers/tasks.py) and the statistics              *)
(* (routers/stats.py).  Each selects the rows of the caller's scope that   *)
(* satisfy its predicate; a NULL operand makes an SQL comparison unknown,  *)
(* and the row is not selected.                                            *)

ScopeAll(u) == DOMAIN tasks

\* ADMIN: select(Task); otherwise: .where(Task.user_id == current_user.id)
Scope(u) ==
    IF Role(u) = "admin" THEN DOMAIN tasks
    ELSE {i \in DOMAIN tasks : tasks[i].user_id = u}

UpperCase == <<"A", "B", "C", "D", "E", "F", "G", "H", "I", "J", "K", "L", "M",
               "N", "O", "P", "Q", "R", "S", "T", "U", "V", "W", "X", "Y", "Z">>
LowerCase == <<"a", "b", "c", "d", "e", "f", "g", "h", "i", "j", "k", "l", "m",
               "n", "o", "p", "q", "r", "s", "t", "u", "v", "w", "x", "y", "z">>

ToLower(c) ==
    IF \E i \in DOMAIN UpperCase : UpperCase[i] = c
    THEN LowerCase[CHOOSE i \in DOMAIN UpperCase : UpperCase[i] = c]
    ELSE c

\* q.lower()
Lowered(q) == [i \in DOMAIN q |-> ToLower(q[i])]

\* SQL LIKE: % matches any run of characters, _ any one character
RECURSIVE Like(_, _)
Like(s, pat) ==
    IF pat = <<>> THEN s = <<>>
    ELSE IF Head(pat) = "%"
         THEN Like(s, Tail(pat)) \/ (s # <<>> /\ Like(Tail(s), pat))
    ELSE IF s = <<>> THEN FALSE
    ELSE (Head(pat) = "_" \/ Head(pat) = Head(s)) /\ Like(Tail(s), Tail(pat))

\* column.ilike(pattern): LIKE on the lowered operands, unknown on NULL
ILike(col, pat) == col # None /\ Like(Lowered(col[1]), Lowered(pat))

\* f"%{q.lower()}%"
Keyword(q) == <<"%">> \o Lowered(q) \o <<"%">>

get_all_tasks(u) ==
    /\ resp' = TaskRows("list", u, 0, 200, Scope(u), tasks)
    /\ UNCHANGED <<tasks, nextId, now, ev, txn>>

\* func.date(Task.deadline_at) == today
get_tasks_today(u) ==
    /\ resp' = TaskRows("today", u, 0, 200,
                   {i \in Scope(u) : /\ tasks[i].deadline_at # None
                                     /\ DateOf(tasks[i].deadline_at[1]) = Today},
                   tasks)
    /\ UNCHANGED <<tasks, nextId, now, ev, txn>>

get_tasks_by_status(u, status) ==
    /\ UNCHANGED <<tasks, nextId, now, ev, txn>>
    /\ IF status \notin Statuses
       THEN resp' = [Failure("by_status", u, 0, 404) EXCEPT !.arg = status]
       ELSE resp' = [TaskRows("by_status", u, 0, 200,
                         {i \in Scope(u) :
                             tasks[i].completed = Some(status = "completed")},
                         tasks) EXCEPT !.arg = status]

search_tasks(u, q) ==
    /\ UNCHANGED <<tasks, nextId, now, ev, txn>>
    /\ IF Len(q) < MinQueryLen
       THEN resp' = [Failure("search", u, 0, 422) EXCEPT !.q = q]
       ELSE LET found == {i \in Scope(u) :
                             \/ ILike(tasks[i].title, Keyword(q))
                             \/ ILike(tasks[i].description, Keyword(q))}
            IN  IF found = {}
                THEN resp' = [Failure("search", u, 0, 404) EXCEPT !.q = q]
                ELSE resp' = [TaskRows("search", u, 0, 200, found, tasks)
                                 EXCEPT !.q = q]

get_tasks_by_quadrant(u, quadrant) ==
    /\ UNCHANGED <<tasks, nextId, now, ev, txn>>
    /\ IF quadrant \notin Quadrants
       THEN resp' = [Failure("by_quadrant", u, 0, 400) EXCEPT !.arg = quadrant]
       ELSE resp' = [TaskRows("by_quadrant", u, 0, 200,
                         {i \in Scope(u) : tasks[i].quadrant = quadrant},
                         tasks) EXCEPT !.arg = quadrant]

\* as Tally, counting as pending only the rows whose completed is false
TallyOfFalse(rows) ==
    [total_tasks |-> Cardinality(rows),
     by_quadrant |-> [qd \in Quadrants |->
                         Cardinality({i \in rows : tasks[i].quadrant = qd})],
     by_status |-> [st \in Statuses |->
                       Cardinality({i \in rows :
                           tasks[i].completed = Some(st = "completed")})]]

\* the tallies of get_tasks_stats over the selected rows
Tally(rows) ==
    [total_tasks |-> Cardinality(rows),
     by_quadrant |-> [qd \in Quadrants |->
                         Cardinality({i \in rows : tasks[i].quadrant = qd})],
     by_status |-> [st \in Statuses |->
                       Cardinality({i \in rows :
                           Truthy(tasks[i].completed) = (st = "completed")})]]

get_tasks_stats(u) ==
    /\ resp' = [Failure("stats", u, 0, 200) EXCEPT !.stats = Tally(Scope(u))]
    /\ UNCHANGED <<tasks, nextId, now, ev, txn>>

\* Task.completed == False, within the caller's scope
get_deadline_stats(u) ==
    /\ resp' = TaskRows("deadlines", u, 0, 200,
                   {i \in Scope(u) : tasks[i].completed = Some(FALSE)}, tasks)
    /\ UNCHANGED <<tasks, nextId, now, ev, txn>>

\* the clock of the host advances; no request is in progress
Tick ==
    /\ now < MaxNow
    /\ now' = now + 1
    /\ resp' = NoResp
    /\ UNCHANGED <<tasks, nextId, ev, txn>>

---------------------------------------------------------------------------
(* update_task when requests interleave.  Each request has its own session *)
(* (get_async_session) and suspends at its awaits: the SELECT, then        *)
(* db.commit().  From the SELECT to the commit the handler works on its    *)
(* own copy of the row.  The commit flushes an UPDATE of the columns whose *)
(* value on the copy differs from the value loaded (the unit of work of    *)
(* the ORM), on the row as it is then (READ COMMITTED, the default of the  *)
(* database), and db.refresh reads the row back for the response.          *)

TaskColumns == {"title", "description", "is_important", "is_urgent", "quadrant",
                "completed", "created_at", "completed_at", "deadline_at", "user_id"}

\* the columns of the UPDATE statement
Dirty(loaded, task) == {c \in TaskColumns : task[c] # loaded[c]}

\* the row after the UPDATE
Flushed(row, loaded, task) ==
    [c \in TaskColumns |-> IF c \in Dirty(loaded, task) THEN task[c] ELSE row[c]]

\* update_task up to await db.commit(): validation, SELECT, the two checks, setattr
\* and the recomputation on the request's copy
update_select(r, u, id, req) ==
    /\ txn[r].phase = "idle"
    /\ UNCHANGED <<tasks, nextId, now, ev>>
    /\ IF ~ValidUpdate(req)
       THEN /\ resp' = [Failure("update", u, id, 422) EXCEPT !.req = Some(req)]
            /\ UNCHANGED txn
       ELSE IF ~Exists(id)
       THEN resp' = Failure("update", u, id, 404) /\ UNCHANGED txn
       ELSE IF Forbidden(u, tasks[id])
       THEN resp' = Failure("update", u, id, 403) /\ UNCHANGED txn
       ELSE /\ txn' = [txn EXCEPT ![r] =
                          [phase |-> "selected", caller |-> u, id |-> id,
                           req |-> Some(req), loaded |-> Some(tasks[id]),
                           task |-> Some(Updated(tasks[id], req))]]
            /\ UNCHANGED resp

\* await db.commit() and await db.refresh(task) of a request that has selected; no
\* request of SpecRace deletes, so the row is there
update_commit(r) ==
    /\ txn[r].phase = "selected"
    /\ UNCHANGED <<nextId, now, ev>>
    /\ LET u == txn[r].caller
           id == txn[r].id
           req == txn[r].req[1]
           row == Flushed(tasks[id], txn[r].loaded[1], txn[r].task[1])
       IN  IF ~CommitOK(row)
           THEN /\ resp' = [Failure("update", u, id, 500) EXCEPT
                               !.fields = Provided(req), !.req = Some(req),
                               !.prev = txn[r].loaded]
                /\ txn' = [txn EXCEPT ![r].phase = "failed"]
                /\ UNCHANGED tasks
           ELSE LET new == [tasks EXCEPT ![id] = row]
                IN  /\ tasks' = new
                    /\ resp' = [TaskRows("update", u, id, 200, {id}, new)
                                   EXCEPT !.fields = Provided(req), !.req = Some(req),
                                          !.prev = txn[r].loaded]
                    /\ txn' = [txn EXCEPT ![r].phase = "committed"]

---------------------------------------------------------------------------
(* Inputs.                                                                 *)

TitleA == <<"P", "a", "y">>
TitleB == <<"c", "a", "l", "l">>
TitleShort == <<"g", "o">>
DescA == <<"n", "o", "w">>

\* a timestamp late on calendar day d
LateOn(d) == d * TicksPerDay + (TicksPerDay - 1)

\* no deadline, a deadline on day 0, and one UrgentDays + 1 days after day 0
Deadlines == {None, Some(LateOn(0)), Some(LateOn(UrgentDays + 1))}

\* the callers of SpecLife, and the one of them who creates tasks
LifeUsers == {Admin, 2}
LifeCreators == {2}

LifeCreateReqs ==
    [title : {TitleA, TitleShort}, description : {None, Some(DescA)},
     is_important : BOOLEAN, deadline_at : Deadlines, user_id : {Unset}]

\* update bodies of at most MaxProvided keys
LifeUpdateReqs ==
    {r \in [title : {Unset, Given(None), Given(Some(TitleB)), Given(Some(TitleShort))},
            description : {Unset, Given(None), Given(Some(DescA))},
            is_important : {Unset} \cup {Given(b) : b \in OptBool},
            deadline_at : {Unset} \cup {Given(d) : d \in Deadlines},
            completed : {Unset} \cup {Given(b) : b \in OptBool},
            is_urgent : {Unset, Given(TRUE), Given(FALSE)},
            quadrant : {Unset, Given("Q1")}] :
        Cardinality(BodyKeys(r)) <= MaxProvided}

\* the inputs of Spec: three callers, two of them owning tasks
Creators == {2, 3}

\* an important task due today, an unimportant one with no deadline, and a
\* body whose title is too short
CreateReqs ==
    {[title |-> TitleA, description |-> None,
      is_important |-> TRUE, deadline_at |-> Some(LateOn(0)), user_id |-> Unset],
     [title |-> TitleB, description |-> Some(DescA),
      is_important |-> FALSE, deadline_at |-> None, user_id |-> Unset],
     [title |-> TitleShort, description |-> None,
      is_important |-> TRUE, deadline_at |-> None, user_id |-> Unset]}

\* a string of n characters
Filled(n) == [i \in 1..n |-> "x"]

\* create bodies at the limits of TaskBase: the shortest and the longest title, the
\* longest description, one character more than each, and the too-short title; two of
\* them carry the user_id of user 3
EdgeCreateReqs ==
    {[title |-> TitleA, description |-> None,
      is_important |-> TRUE, deadline_at |-> Some(LateOn(0)), user_id |-> Unset],
     [title |-> Filled(MaxTitleLen), description |-> Some(Filled(MaxDescLen)),
      is_important |-> FALSE, deadline_at |-> None, user_id |-> Given(3)],
     [title |-> Filled(MaxTitleLen + 1), description |-> None,
      is_important |-> TRUE, deadline_at |-> None, user_id |-> Unset],
     [title |-> TitleA, description |-> Some(Filled(MaxDescLen + 1)),
      is_important |-> FALSE, deadline_at |-> None, user_id |-> Unset],
     [title |-> TitleShort, description |-> None,
      is_important |-> FALSE, deadline_at |-> None, user_id |-> Given(3)]}

\* the two in-flight update requests of SpecRace
Requests == {"a", "b"}

Idle == [phase |-> "idle", caller |-> 0, id |-> 0, req |-> None,
         loaded |-> None, task |-> None]

NoTxn == [r \in Requests |-> Idle]

NoUpdate == [f \in BodyFields |-> Unset]

\* update bodies of Spec: {"is_important": false}, {"completed": null} and a
\* title that is too short
UpdateReqs ==
    {[NoUpdate EXCEPT !.is_important = Given(Some(FALSE))],
     [NoUpdate EXCEPT !.completed = Given(None)],
     [NoUpdate EXCEPT !.title = Given(Some(TitleShort))]}

StatusArgs == Statuses \cup {"done"}
QuadrantArgs == Quadrants \cup {"Q5"}
\* a query in mixed case, one that is too short, and one with a LIKE wildcard in it
Queries == {<<"p", "A">>, <<"a">>, <<"_", "y">>}

NoEval == [deadline_at |-> None, is_important |-> None, today |-> 0,
           done |-> FALSE, is_urgent |-> FALSE, quadrant |-> "", days |-> None]

Init ==
    /\ tasks = <<>>
    /\ nextId = 1
    /\ now = 0
    /\ resp = NoResp
    /\ ev = NoEval
    /\ txn = NoTxn

NextLife ==
    \/ \E u \in LifeCreators, req \in LifeCreateReqs :
           nextId <= MaxLifeTasks /\ create_task(u, req)
    \/ \E u \in LifeUsers, id \in 1..MaxLifeTasks, req \in LifeUpdateReqs :
           update_task(u, id, req)
    \/ \E u \in LifeUsers, id \in 1..MaxLifeTasks : complete_task(u, id)
    \/ \E u \in LifeUsers, id \in 1..MaxLifeTasks : delete_task(u, id)
    \/ \E u \in LifeUsers, id \in 1..MaxLifeTasks : get_task_by_id(u, id)
    \/ Tick

SpecLife == Init /\ [][NextLife]_vars

Next ==
    \/ \E u \in Creators, req \in CreateReqs :
           nextId <= MaxTasks /\ create_task(u, req)
    \/ \E u \in Users, id \in 1..MaxTasks, req \in UpdateReqs : update_task(u, id, req)
    \/ \E u \in Users, id \in 1..MaxTasks : complete_task(u, id)
    \/ \E u \in Users, id \in 1..MaxTasks : delete_task(u, id)
    \/ \E u \in Users, id \in 1..MaxTasks : get_task_by_id(u, id)
    \/ \E u \in Users : get_all_tasks(u)
    \/ \E u \in Users : get_tasks_today(u)
    \/ \E u \in Users, status \in StatusArgs : get_tasks_by_status(u, status)
    \/ \E u \in Users, q \in Queries : search_tasks(u, q)
    \/ \E u \in Users, quadrant \in QuadrantArgs : get_tasks_by_quadrant(u, quadrant)
    \/ \E u \in Users : get_tasks_stats(u)
    \/ \E u \in Users : get_deadline_stats(u)

Spec == Init /\ [][Next]_vars

\* creation at the limits of the schema, by two users, with deletions in between
NextCreate ==
    \/ \E u \in Creators, req \in EdgeCreateReqs :
           nextId <= MaxTasks /\ create_task(u, req)
    \/ \E u \in Users, id \in 1..MaxTasks : delete_task(u, id)
    \/ \E u \in Users, id \in 1..MaxTasks : get_task_by_id(u, id)

SpecCreate == Init /\ [][NextCreate]_vars

\* the bodies of the interleaved updates: each provides is_important or deadline_at,
\* but for one whose title is too short
RaceUpdateReqs ==
    {[NoUpdate EXCEPT !.is_important = Given(b)] : b \in OptBool}
        \cup {[NoUpdate EXCEPT !.deadline_at = Given(d)] : d \in Deadlines}
        \cup {[NoUpdate EXCEPT !.title = Given(Some(TitleShort))]}

\* one task, and two update requests that may interleave
NextRace ==
    \/ \E u \in LifeCreators, req \in LifeCreateReqs :
           nextId <= MaxLifeTasks /\ create_task(u, req)
    \/ \E r \in Requests, u \in LifeUsers \cup {3}, id \in 1..MaxLifeTasks,
             req \in RaceUpdateReqs : update_select(r, u, id, req)
    \/ \E r \in Requests : update_commit(r)

SpecRace == Init /\ [][NextRace]_vars

---------------------------------------------------------------------------
(* The evaluation functions on their own: every deadline (absent, or any   *)
(* clock reading of days 0..MaxDay), every importance and every reference  *)
(* date of days 0..MaxDay.                                                 *)

InitPure ==
    /\ tasks = <<>>
    /\ nextId = 1
    /\ now = 0
    /\ resp = NoResp
    /\ txn = NoTxn
    /\ ev \in {[NoEval EXCEPT !.deadline_at = d, !.is_important = imp, !.today = day] :
                  d \in {None} \cup {Some(ts) : ts \in 0..LateOn(MaxDay)},
                  imp \in OptBool, day \in 0..MaxDay}

\* one call of each function on the drawn inputs
Evaluate ==
    /\ ~ev.done
    /\ LET uq == calculate_urgency_and_quadrant(ev.deadline_at, ev.is_important, ev.today)
       IN  ev' = [ev EXCEPT !.done = TRUE,
                            !.is_urgent = uq.is_urgent,
                            !.quadrant = uq.quadrant,
                            !.days = calculate_days_until_deadline(ev.deadline_at, ev.today)]
    /\ UNCHANGED <<tasks, nextId, now, resp, txn>>

SpecPure == InitPure /\ [][Evaluate]_vars

---------------------------------------------------------------------------
(* What the specification says of the two functions, stated on its own     *)
(* terms: the calendar day of a clock reading, the four-row table.         *)

\* the calendar day a clock reading falls on
DayOfReading(ts) ==
    CHOOSE d \in 0..ts : d * TicksPerDay <= ts /\ ts < (d + 1) * TicksPerDay

\* evaluate(deadline_at, today).is_urgent of the specification
UrgentBySpec(deadline_at, today) ==
    deadline_at # None /\ DayOfReading(deadline_at[1]) - today <= 3

\* classify(is_important, is_urgent) of the specification
ClassifyBySpec(is_important, is_urgent) ==
    CASE is_important /\ is_urgent -> "Q1"
      [] is_important /\ ~is_urgent -> "Q2"
      [] ~is_important /\ is_urgent -> "Q3"
      [] ~is_important /\ ~is_urgent -> "Q4"

\* the last request was a Create, or an Update providing is_important or deadline_at,
\* and it succeeded
Reclassified ==
    \/ resp.op = "create" /\ resp.status = 201
    \/ /\ resp.op = "update" /\ resp.status = 200
       /\ resp.fields \cap {"is_important", "deadline_at"} # {}

\* C1: right after a successful Create, and after a successful Update that provided
\* is_important or deadline_at, the stored task has
\* quadrant = classify(is_important, is_urgent) and
\* is_urgent = evaluate(deadline_at, today).is_urgent, for today the date of the request
\* and the task's values after the update.
C1_ReclassifiedOnWrite ==
    Reclassified =>
        LET t == tasks[resp.id]
        IN  /\ t.is_urgent = UrgentBySpec(t.deadline_at, Today)
            /\ t.quadrant = ClassifyBySpec(Truthy(t.is_important), t.is_urgent)

\* an Update of is_important alone, on a later day than the task's creation, found the
\* unchanged deadline three days away and made the task urgent
C1_Witness ==
    /\ resp.op = "update" /\ resp.status = 200
    /\ resp.fields = {"is_important"}
    /\ LET t == tasks[resp.id]
       IN  /\ t.deadline_at # None
           /\ DateOf(t.created_at) < Today
           /\ ~resp.prev[1].is_urgent
           /\ t.is_urgent
           /\ t.quadrant = "Q3"

\* C2: is_urgent is true exactly when a deadline is present and
\* (calendar date of the deadline - today) <= 3, whatever the time of day: 3 days ahead
\* is urgent, 4 days ahead is not, a past deadline is urgent; no deadline gives
\* is_urgent = false and days_until_deadline = null.
C2_UrgencyByCalendarDays ==
    ev.done =>
        /\ ev.is_urgent = UrgentBySpec(ev.deadline_at, ev.today)
        /\ ev.deadline_at = None => (~ev.is_urgent /\ ev.days = None)
        /\ ev.deadline_at # None =>
              LET delta == DayOfReading(ev.deadline_at[1]) - ev.today
              IN  /\ ev.days = Some(delta)
                  /\ delta = 3 => ev.is_urgent
                  /\ delta = 4 => ~ev.is_urgent
                  /\ delta < 0 => ev.is_urgent

\* a deadline late on the day three days ahead was evaluated as urgent
C2_Witness ==
    /\ ev.done
    /\ ev.deadline_at # None
    /\ ev.deadline_at[1] = LateOn(ev.today + 3)
    /\ ev.is_urgent
    /\ ev.days = Some(3)

\* C3: the quadrant is a total function of (is_important, is_urgent) alone, by the
\* table Q1/Q2/Q3/Q4; so every stored task's quadrant is one of Q1..Q4 and is the
\* table's value for its own is_important and is_urgent, and a stored task with no
\* deadline is in Q2 when important and in Q4 when not.
C3_QuadrantTable ==
    /\ \A imp \in BOOLEAN, urg \in BOOLEAN :
           QuadrantOf(Some(imp), urg) = ClassifyBySpec(imp, urg)
    /\ \A id \in DOMAIN tasks :
           LET t == tasks[id]
           IN  /\ t.quadrant \in Quadrants
               /\ t.quadrant = ClassifyBySpec(Truthy(t.is_important), t.is_urgent)
               /\ t.deadline_at = None =>
                      t.quadrant = IF Truthy(t.is_important) THEN "Q2" ELSE "Q4"

\* an Update that cleared the deadline of an urgent important task left it in Q2
C3_Witness ==
    /\ resp.op = "update" /\ resp.status = 200
    /\ resp.fields = {"deadline_at"}
    /\ resp.prev[1].quadrant = "Q1"
    /\ tasks[resp.id].deadline_at = None
    /\ tasks[resp.id].quadrant = "Q2"

---------------------------------------------------------------------------
(* Access: scope of the reads, and the by-id operations.                   *)

\* the tasks the specification lets caller u see
Visible(u) ==
    IF Role(u) = "admin" THEN DOMAIN tasks
    ELSE {i \in DOMAIN tasks : tasks[i].user_id = u}

\* the filter predicate of the read that produced resp, on task i
Selected(i) ==
    LET t == tasks[i]
    IN  CASE resp.op = "list" -> TRUE
          [] resp.op = "today" ->
                 t.deadline_at # None /\ DayOfReading(t.deadline_at[1]) = Today
          [] resp.op = "by_status" ->
                 IF resp.arg = "completed" THEN t.completed = Some(TRUE)
                 ELSE t.completed = Some(FALSE)
          [] resp.op = "by_quadrant" -> t.quadrant = resp.arg
          [] resp.op = "search" ->
                 ILike(t.title, Keyword(resp.q)) \/ ILike(t.description, Keyword(resp.q))
          [] resp.op = "deadlines" -> t.completed = Some(FALSE)

ListReads == {"list", "today", "by_status", "by_quadrant", "search", "deadlines"}

ByIdOps == {"get", "update", "complete", "delete"}

C6_MissingIdIsNotFound ==
    [][(resp'.op \in ByIdOps /\ resp'.id \notin DOMAIN tasks /\ resp'.status # 422) =>
          /\ resp'.status = 404
          /\ tasks' = tasks
          /\ nextId' = nextId
      ]_vars

\* a second Delete of a deleted task answered 404 while another task was stored
C6_Witness ==
    /\ resp.op = "delete" /\ resp.status = 404
    /\ resp.id < nextId
    /\ resp.id \notin DOMAIN tasks
    /\ tasks # <<>>

---------------------------------------------------------------------------
(* Completion, and the frame of Update.                                    *)

\* C7: in every reachable state every stored task has completed_at non-null if and
\* only if completed is true.
C7_CompletedAtIffCompleted ==
    \A id \in DOMAIN tasks :
        (tasks[id].completed_at # None) <=> (tasks[id].completed = Some(TRUE))

\* C8, as claimed: once completed_at is non-null no later operation changes or clears it.
C8_SetOnlyOnce ==
    [][\A id \in DOMAIN tasks \cap DOMAIN tasks' :
          tasks[id].completed_at # None =>
              tasks'[id].completed_at = tasks[id].completed_at
      ]_vars

\* C8, amended: once completed_at is non-null it stays non-null while the task exists,
\* no Update changes it, and only a successful Complete of that task changes it, to the
\* time of that call.
C8_OnlyCompleteRewrites ==
    [][\A id \in DOMAIN tasks \cap DOMAIN tasks' :
          tasks[id].completed_at # None =>
              /\ tasks'[id].completed_at # None
              /\ tasks'[id].completed_at # tasks[id].completed_at =>
                     /\ resp'.op = "complete" /\ resp'.status = 200 /\ resp'.id = id
                     /\ tasks'[id].completed_at = Some(now)
      ]_vars

\* an Update set completed back to false on a completed task and its completed_at stayed
C8_Witness ==
    /\ resp.op = "update" /\ resp.status = 200
    /\ resp.fields = {"completed"}
    /\ resp.prev[1].completed = Some(TRUE)
    /\ resp.prev[1].completed_at # None
    /\ tasks[resp.id].completed = Some(FALSE)
    /\ tasks[resp.id].completed_at = resp.prev[1].completed_at

\* C9: Complete on an existing task the caller may access succeeds whatever the task's
\* state, sets completed = true and completed_at = now, never earlier than the value it
\* overwrites, and leaves every other field and task unchanged.
C9_CompleteOverwrites ==
    [][(/\ resp'.op = "complete"
        /\ resp'.id \in DOMAIN tasks
        /\ (Role(resp'.caller) = "admin" \/ tasks[resp'.id].user_id = resp'.caller)) =>
          LET old == tasks[resp'.id]
          IN  /\ resp'.status = 200
              /\ tasks' = [tasks EXCEPT ![resp'.id] =
                              [old EXCEPT !.completed = Some(TRUE),
                                          !.completed_at = Some(now)]]
              /\ old.completed_at # None => old.completed_at[1] <= now
      ]_vars

\* a second Complete of a completed task overwrote completed_at with a later time
C9_Witness ==
    /\ resp.op = "complete" /\ resp.status = 200
    /\ resp.prev[1].completed = Some(TRUE)
    /\ resp.prev[1].completed_at # None
    /\ resp.prev[1].completed_at[1] < now
    /\ tasks[resp.id].completed_at = Some(now)

\* C10: a successful Update writes the provided fields and nothing else: a field of
\* {title, description, is_important, deadline_at, completed} that is not provided keeps
\* its value, as do owner, created_at, completed_at and the task's id; is_urgent and
\* quadrant are unchanged when neither is_important nor deadline_at is provided (also
\* when the body carries is_urgent or quadrant), and are the recomputed values otherwise.
\* An Update that fails changes nothing.
C10_UpdateIsPartial ==
    [][resp'.op = "update" =>
          IF resp'.status # 200 THEN tasks' = tasks
          ELSE LET id == resp'.id
                   old == tasks[id]
                   new == tasks'[id]
               IN  /\ DOMAIN tasks' = DOMAIN tasks
                   /\ \A i \in DOMAIN tasks \ {id} : tasks'[i] = tasks[i]
                   /\ \A f \in UpdateFields :
                          IF f \in resp'.fields THEN new[f] = resp'.req[1][f][1]
                          ELSE new[f] = old[f]
                   /\ new.user_id = old.user_id
                   /\ new.created_at = old.created_at
                   /\ new.completed_at = old.completed_at
                   /\ IF resp'.fields \cap {"is_important", "deadline_at"} = {}
                      THEN new.is_urgent = old.is_urgent /\ new.quadrant = old.quadrant
                      ELSE /\ new.is_urgent = UrgentBySpec(new.deadline_at, Today)
                           /\ new.quadrant =
                                  ClassifyBySpec(Truthy(new.is_important), new.is_urgent)
      ]_vars

\* an Update of the description alone, on a later day, of a task whose stored urgency
\* is out of date: the description changed, the urgency and the quadrant did not
C10_Witness ==
    /\ resp.op = "update" /\ resp.status = 200
    /\ resp.fields = {"description"}
    /\ LET old == resp.prev[1]
           new == tasks[resp.id]
       IN  /\ new.description # old.description
           /\ new.title = old.title
           /\ new.is_urgent = old.is_urgent
           /\ new.quadrant = old.quadrant
           /\ new.is_urgent # UrgentBySpec(new.deadline_at, Today)

---------------------------------------------------------------------------
(* Creation.                                                               *)

\* C11: a Create whose title has 3 to 100 characters and whose description, if any, has
\* at most 500 adds exactly one task, under an id that was not in use: its owner is the
\* caller whatever the body says, completed is false, completed_at is null, and every
\* task that existed is unchanged.  Any other Create answers 422 and stores nothing.
C11_CreateAddsOwnTask ==
    [][resp'.op = "create" =>
          LET req == resp'.req[1]
              id == resp'.id
          IN  IF /\ Len(req.title) >= 3 /\ Len(req.title) <= 100
                 /\ (req.description = None \/ Len(req.description[1]) <= 500)
              THEN /\ resp'.status = 201
                   /\ id \notin DOMAIN tasks
                   /\ DOMAIN tasks' = DOMAIN tasks \cup {id}
                   /\ \A i \in DOMAIN tasks : tasks'[i] = tasks[i]
                   /\ tasks'[id].user_id = resp'.caller
                   /\ tasks'[id].completed = Some(FALSE)
                   /\ tasks'[id].completed_at = None
                   /\ tasks'[id].title = Some(req.title)
                   /\ tasks'[id].description = req.description
              ELSE /\ resp'.status = 422
                   /\ tasks' = tasks
                   /\ nextId' = nextId
      ]_vars

\* user 2 created a second task with a 100-character title and a 500-character
\* description from a body that names user 3: the task is user 2's
C11_Witness ==
    /\ resp.op = "create" /\ resp.status = 201
    /\ resp.caller = 2
    /\ resp.req[1].user_id = Given(3)
    /\ Len(resp.req[1].title) = 100
    /\ Len(resp.req[1].description[1]) = 500
    /\ tasks[resp.id].user_id = 2
    /\ tasks[resp.id].completed = Some(FALSE)
    /\ DOMAIN tasks # {resp.id}

---------------------------------------------------------------------------
(* Order of the checks of the by-id operations.                            *)

\* C12: for Get, Update, Complete and Delete called by a USER (with a body that
\* validates), the answer is 404 exactly when the id is not in the collection and 403
\* exactly when the id is in the collection and the task belongs to another user: the
\* answer to a non-owner tells whether the id exists.
C12_ExistenceBeforeOwnership ==
    [][(resp'.op \in ByIdOps /\ Role(resp'.caller) = "user" /\ resp'.status # 422) =>
          /\ resp'.status = 404 <=> resp'.id \notin DOMAIN tasks
          /\ resp'.status = 403 <=>
                 (resp'.id \in DOMAIN tasks /\ tasks[resp'.id].user_id # resp'.caller)
      ]_vars

\* a USER asked for another user's task and was answered 403, while another id, once
\* in use, is no longer in the collection and would be answered 404
C12_Witness ==
    /\ resp.op = "get" /\ resp.status = 403
    /\ Role(resp.caller) = "user"
    /\ resp.id \in DOMAIN tasks
    /\ tasks[resp.id].user_id # resp.caller
    /\ \E i \in 1..(nextId - 1) : i \notin DOMAIN tasks

---------------------------------------------------------------------------
(* Search.                                                                 *)

\* q occurs in s as a run of consecutive characters
Occurs(q, s) == \E k \in 0..(Len(s) - Len(q)) : SubSeq(s, k + 1, k + Len(q)) = q

\* q occurs in the column, letter case apart; nothing occurs in a null column
OccursIn(q, col) == col # None /\ Occurs(Lowered(q), Lowered(col[1]))

\* C13: a Search with a query of at least two characters returns exactly the tasks of
\* the caller's scope in whose title or description the query occurs as a substring,
\* letter case apart, and answers not-found exactly when there is none.
C13_SearchBySubstring ==
    (resp.op = "search" /\ resp.status # 422) =>
        LET hit == {i \in Visible(resp.caller) :
                       \/ OccursIn(resp.q, tasks[i].title)
                       \/ OccursIn(resp.q, tasks[i].description)}
        IN  /\ resp.status = 404 <=> hit = {}
            /\ resp.status = 200 => resp.rows = hit

---------------------------------------------------------------------------
(* Deletion.  Ids are handed out in order and never again, so an id below  *)
(* nextId that is not in the collection is the id of a deleted task.       *)

\* C14: a successful Delete removes the addressed task and no other, leaves every other
\* task as it was, and returns the id and the title of the removed task.  A deleted id
\* never comes back: Get, Update, Complete and Delete on it answer 404 (a body that
\* validates) and change nothing, no read returns it, and the statistics count the
\* stored tasks of the caller's scope only.
C14_DeleteIsPermanent ==
    [][/\ (resp'.op = "delete" /\ resp'.status = 200) =>
              LET id == resp'.id
              IN  /\ id \in DOMAIN tasks
                  /\ DOMAIN tasks' = DOMAIN tasks \ {id}
                  /\ \A i \in DOMAIN tasks' : tasks'[i] = tasks[i]
                  /\ resp'.deleted = Some([id |-> id, title |-> tasks[id].title])
                  /\ nextId' = nextId
       /\ \A id \in 1..(nextId - 1) \ DOMAIN tasks :
              /\ id \notin DOMAIN tasks'
              /\ id \notin resp'.rows
              /\ (resp'.op \in ByIdOps /\ resp'.id = id /\ resp'.status # 422) =>
                     resp'.status = 404 /\ tasks' = tasks
       /\ resp'.op = "stats" =>
              /\ resp'.stats.total_tasks =
                     Cardinality({i \in DOMAIN tasks' :
                         Role(resp'.caller) = "admin" \/ tasks'[i].user_id = resp'.caller})
              /\ \A qd \in Quadrants : resp'.stats.by_quadrant[qd] <= resp'.stats.total_tasks
      ]_vars

\* the owner of two tasks deleted the first: the answer names its id and its title,
\* and the second task is still stored
C14_Witness ==
    /\ resp.op = "delete" /\ resp.status = 200
    /\ Role(resp.caller) = "user"
    /\ resp.deleted = Some([id |-> resp.id, title |-> resp.prev[1].title])
    /\ resp.id \notin DOMAIN tasks
    /\ \E i \in DOMAIN tasks : i > resp.id /\ tasks[i].user_id = resp.caller

---------------------------------------------------------------------------
(* The stored classification as the date advances.                         *)

\* C15: in every reachable state, also after the date has advanced with no request in
\* between, every stored task has is_urgent = evaluate(deadline_at, today).is_urgent and
\* quadrant = classify(is_important, is_urgent), for today the current date.
C15_AlwaysClassified ==
    \A id \in DOMAIN tasks :
        LET t == tasks[id]
        IN  /\ t.is_urgent = UrgentBySpec(t.deadline_at, Today)
            /\ t.quadrant = ClassifyBySpec(Truthy(t.is_important), t.is_urgent)

---------------------------------------------------------------------------
(* Interleaved updates.                                                    *)

\* request r has committed an Update of task id that provided field f alone
CommittedOnly(r, id, f) ==
    /\ txn[r].phase = "committed"
    /\ txn[r].id = id
    /\ Provided(txn[r].req[1]) = {f}

\* C16: when two Updates of one task, one providing is_important and the other
\* deadline_at, have both committed, in whatever order their reads and commits fell,
\* the stored task has both provided values, is_urgent = evaluate(deadline_at,
\* today).is_urgent and quadrant = classify(is_important, is_urgent).
C16_InterleavedUpdatesConsistent ==
    \A id \in DOMAIN tasks, r1 \in Requests, r2 \in Requests :
        (CommittedOnly(r1, id, "is_important") /\ CommittedOnly(r2, id, "deadline_at")) =>
            LET t == tasks[id]
            IN  /\ t.is_important = txn[r1].req[1].is_important[1]
                /\ t.deadline_at = txn[r2].req[1].deadline_at[1]
                /\ t.is_urgent = UrgentBySpec(t.deadline_at, Today)
                /\ t.quadrant = ClassifyBySpec(Truthy(t.is_important), t.is_urgent)

---------------------------------------------------------------------------
(* Statistics.                                                             *)

\* C17: the counts of the statistics are over the caller's scope (every task for an
\* ADMIN, the caller's own for a USER): total_tasks is the number of tasks in scope,
\* by_status.completed + by_status.pending = total_tasks, and
\* by_quadrant.Q1 + Q2 + Q3 + Q4 = total_tasks; every stored quadrant is one of Q1..Q4,
\* so the by-quadrant tally drops no task.
C17_StatsAddUp ==
    /\ \A i \in DOMAIN tasks : tasks[i].quadrant \in {"Q1", "Q2", "Q3", "Q4"}
    /\ resp.op = "stats" =>
           LET st == resp.stats
           IN  /\ st.total_tasks = Cardinality(Visible(resp.caller))
               /\ st.by_status["completed"] + st.by_status["pending"] = st.total_tasks
               /\ st.by_quadrant["Q1"] + st.by_quadrant["Q2"]
                      + st.by_quadrant["Q3"] + st.by_quadrant["Q4"] = st.total_tasks

\* a USER's statistics count the caller's one task, in Q1 and pending because its
\* completed is null, while another user's task is stored too
C17_Witness ==
    /\ resp.op = "stats"
    /\ Role(resp.caller) = "user"
    /\ resp.stats.total_tasks = 1
    /\ resp.stats.by_quadrant["Q1"] = 1
    /\ resp.stats.by_status["pending"] = 1
    /\ Cardinality(DOMAIN tasks) = 2
    /\ \E i \in DOMAIN tasks : tasks[i].user_id = resp.caller /\ tasks[i].completed = None

====
